---- MODULE Spec2Model ----
(***************************************************************************)
(* Model of the computational cells of                                     *)
(* notebooks/M5_retail_sales_forecasting.ipynb:                            *)
(*   - cell 7: download_file and its calls                                 *)
(*   - cell 20: few-shot sampling of the train and validation datasets     *)
(*   - cell 22: set_seed(1234)                                             *)
(*   - cell 30/32: custom_metric and its call                              *)
(* A 2-D numpy array is a record [data, shape]; data is a sequence of rows *)
(* and each row a sequence of cells.  A cell is a float: either NaN or a   *)
(* number.  Means are kept as exact fractions [num, den] (not reduced).    *)
(***************************************************************************)
EXTENDS Integers, Sequences, FiniteSets, TLC

VARIABLES
    pc,              \* the notebook cell about to run
    actual,          \* custom_metric argument `actual`
    prediction,      \* custom_metric argument `prediction`
    a,               \* custom_metric local `a`
    p,               \* custom_metric local `p`
    mask,            \* custom_metric local `mask`
    report,          \* value returned by custom_metric: label -> value
    header_arg,      \* the column_header the call passes, or Omitted
    report_columns,  \* column labels of the returned DataFrame
    raised,          \* exception that left the running cell, or "none"
    n_train_all,     \* len(train_dataset) before sampling
    n_valid_all,     \* len(valid_dataset) before sampling
    fewshot_fraction,\* the fraction, in units of 1/FractionDen
    train_index,     \* indices kept in the training Subset
    valid_index,     \* indices kept in the validation Subset
    np_random_state, \* global numpy RNG: unseeded until set_seed runs
    files,           \* file system: path -> contents, or Absent
    http_requests,   \* number of requests.get calls issued so far
    stdout,          \* lines printed by download_file
    last_call,       \* arguments and HTTP response of the latest download_file
    calls            \* number of download_file calls made so far

vars == <<pc, actual, prediction, a, p, mask, report, header_arg,
          report_columns, raised,
          n_train_all, n_valid_all, fewshot_fraction, train_index,
          valid_index, np_random_state, files, http_requests, stdout,
          last_call, calls>>

downloadVars == <<files, http_requests, stdout, last_call, calls>>
metricVars == <<actual, prediction, a, p, mask, report, header_arg,
                report_columns>>
sampleVars == <<n_train_all, n_valid_all, fewshot_fraction, train_index,
                valid_index, np_random_state>>

--------------------------------------------------------------------------
\* Bounds of the model
MaxRows == 2
MaxCols == 2
MaxVal == 1
MaxCells == 4
MaxN == 4
MaxCalls == 3

--------------------------------------------------------------------------
\* Floats: NaN or a number
NaN == [nan |-> TRUE, v |-> 0]
Num(x) == [nan |-> FALSE, v |-> x]
Cells == {NaN} \cup {Num(x) : x \in 0..MaxVal}

Matrices(r, c) == [1..r -> [1..c -> Cells]]

\* A value not assigned yet
Unset == <<>>

\* np.asarray(x.tolist()): a list of r >= 1 rows of c cells becomes an (r, c)
\* array; the empty list becomes the 1-D array of shape (0,).
asarray(x) ==
    [data |-> x,
     shape |-> IF Len(x) = 0 THEN <<0>> ELSE <<Len(x), Len(x[1])>>]

\* a[:, -k:] instead of a[:, :k]
TruncateCols_KeepLast(arr, k) ==
    LET c == IF k < arr.shape[2] THEN k ELSE arr.shape[2]
        n == arr.shape[2]
    IN [data |-> [i \in 1..arr.shape[1] |->
                    SubSeq(arr.data[i], n - c + 1, n)],
        shape |-> <<arr.shape[1], c>>]

\* the slice left out: a stays as it was
TruncateCols_NoSlice(arr, k) == arr

\* a[:, :k]
TruncateCols(arr, k) ==
    LET c == IF k < arr.shape[2] THEN k ELSE arr.shape[2]
    IN [data |-> [i \in 1..arr.shape[1] |-> SubSeq(arr.data[i], 1, c)],
        shape |-> <<arr.shape[1], c>>]

\* ~np.any(np.isnan(a), axis=1)
RowHasNaN(row) == \E j \in 1..Len(row) : row[j].nan
\* np.all in place of np.any
NotAllNaN(arr) ==
    [i \in 1..arr.shape[1] |->
        ~(\A j \in 1..arr.shape[2] : arr.data[i][j].nan)]
NotAnyNaN(arr) == [i \in 1..arr.shape[1] |-> ~RowHasNaN(arr.data[i])]

\* arr[mask, :]
RECURSIVE SelectSeq2(_, _, _)
SelectSeq2(rows, m, i) ==
    IF i > Len(rows) THEN <<>>
    ELSE IF m[i] THEN <<rows[i]>> \o SelectSeq2(rows, m, i + 1)
         ELSE SelectSeq2(rows, m, i + 1)
MaskRows(arr, m) ==
    LET kept == SelectSeq2(arr.data, m, 1)
    IN [data |-> kept, shape |-> <<Len(kept), arr.shape[2]>>]

\* numpy broadcasting of two arrays with the same number of rows
Broadcastable(x, y) ==
    \/ x.shape[2] = y.shape[2]
    \/ x.shape[2] = 1
    \/ y.shape[2] = 1
BroadcastCols(x, y) ==
    IF x.shape[2] = 1 THEN y.shape[2]
    ELSE x.shape[2]
At(arr, i, j) == IF arr.shape[2] = 1 THEN arr.data[i][1] ELSE arr.data[i][j]

SubCell(x, y) == IF x.nan \/ y.nan THEN NaN ELSE Num(x.v - y.v)
\* x - y
Subtract(x, y) ==
    LET c == BroadcastCols(x, y)
    IN [data |-> [i \in 1..x.shape[1] |->
                    [j \in 1..c |-> SubCell(At(x, i, j), At(y, i, j))]],
        shape |-> <<x.shape[1], c>>]

\* np.square, np.abs
\* the square left out
SquareCell_Identity(x) == IF x.nan THEN NaN ELSE Num(x.v)
SquareCell(x) == IF x.nan THEN NaN ELSE Num(x.v * x.v)
AbsCell(x) == IF x.nan THEN NaN ELSE Num(IF x.v < 0 THEN -x.v ELSE x.v)
square(arr) ==
    [data |-> [i \in 1..arr.shape[1] |->
                 [j \in 1..arr.shape[2] |-> SquareCell(arr.data[i][j])]],
     shape |-> arr.shape]
abs(arr) ==
    [data |-> [i \in 1..arr.shape[1] |->
                 [j \in 1..arr.shape[2] |-> AbsCell(arr.data[i][j])]],
     shape |-> arr.shape]

\* np.mean over all cells: NaN for an empty array or when a cell is NaN
RECURSIVE SumRow(_, _)
SumRow(row, j) == IF j > Len(row) THEN 0 ELSE row[j].v + SumRow(row, j + 1)
RECURSIVE SumRows(_, _)
SumRows(rows, i) ==
    IF i > Len(rows) THEN 0 ELSE SumRow(rows[i], 1) + SumRows(rows, i + 1)
NaNMean == [nan |-> TRUE, num |-> 0, den |-> 1]
mean(arr) ==
    LET size == arr.shape[1] * arr.shape[2]
    IN IF size = 0 \/ \E i \in 1..arr.shape[1] : RowHasNaN(arr.data[i])
       THEN NaNMean
       ELSE [nan |-> FALSE, num |-> SumRows(arr.data, 1), den |-> size]

\* np.sqrt(x): the real number whose square is x, kept as its radicand
sqrt(x) == [sqrt_of |-> x]

\* The label argument of a call: a string, or none
Omitted == "<omitted>"
Labels == {Omitted, "fine-tune forecast"}

\* the label argument ignored
column_header_Default(arg) == "results"

\* column_header="results": the parameter is the argument passed, or its
\* default when the call passes none
column_header(arg) == IF arg = Omitted THEN "results" ELSE arg

\* the array written back into the caller's object
WriteThrough(callers, local) == local.data

\* a = ..., p = ...: the assignments bind the local names to new arrays
\* (tolist() copies, the slice is taken of the copy); nothing is stored into
\* the caller's object, which keeps its value
Rebind(callers, local) == callers

--------------------------------------------------------------------------
\* custom_metric(actual, prediction)
custom_metric ==
    /\ pc = "cell32"
    /\ pc' = "done"
    /\ LET a0 == asarray(actual)
           p0 == asarray(prediction)
       IN IF Len(p0.shape) < 2 \/ Len(a0.shape) < 2
          THEN \* p.shape[1] on a 1-D array: IndexError
               /\ a' = a0
               /\ p' = p0
               /\ mask' = Unset
               /\ report' = Unset
               /\ raised' = "IndexError"
          ELSE LET a1 == IF p0.shape[2] < a0.shape[2]
                         THEN TruncateCols(a0, p0.shape[2])
                         ELSE a0
                   m == NotAnyNaN(a1)
                   am == MaskRows(a1, m)
                   pm == MaskRows(p0, m)
               IN /\ a' = a1
                  /\ p' = p0
                  /\ mask' = m
                  /\ IF ~Broadcastable(am, pm)
                     THEN \* operands could not be broadcast together
                          /\ report' = Unset
                          /\ raised' = "ValueError"
                     ELSE LET mse == mean(square(Subtract(am, pm)))
                              mae == mean(abs(Subtract(am, pm)))
                          IN /\ report' =
                                   [mean_squared_error |-> mse,
                                    root_mean_squared_error |-> sqrt(mse),
                                    mean_absolute_error |-> mae]
                             /\ raised' = "none"
    /\ report_columns' = IF raised' = "none"
                         THEN <<column_header(header_arg)>>
                         ELSE Unset
    /\ UNCHANGED header_arg
    /\ actual' = Rebind(actual, a')
    /\ prediction' = Rebind(prediction, p')
    /\ UNCHANGED sampleVars
    /\ UNCHANGED downloadVars

--------------------------------------------------------------------------
\* download_file(file_url, destination)

Absent == "<absent>"
Paths == {"./M5_retail_data_prep.py", "./M5_retail_data_prep.bak"}
Urls == {"refs/heads/main/M5_retail_data_prep.py",
         "refs/heads/dev/M5_retail_data_prep.py"}
\* what the remote may serve: it can differ from one request to the next
Bodies == {"body-1", "body-2"}
Statuses == {200, 404, 500}
Responses == [status_code : Statuses, content : Bodies]
\* requests.get raised instead of returning a response
NoResponse == [status_code |-> 0, content |-> Absent]
NoCall == [file_url |-> "", destination |-> "", requested |-> FALSE,
           response |-> NoResponse]

\* the existence test always failing
exists_Never(path) == FALSE

\* os.path.exists(destination)
exists(path) == files[path] # Absent

\* every status but 404 taken for success
IsSuccess_Not404(status_code) == status_code # 404

\* response.status_code == 200
IsSuccess(status_code) == status_code = 200

download_file ==
    /\ pc = "cell7"
    /\ calls < MaxCalls
    /\ calls' = calls + 1
    /\ pc' = pc
    /\ \E file_url \in Urls, destination \in Paths :
          IF exists(destination)
          THEN \* return before any request
               /\ last_call' = [file_url |-> file_url,
                                destination |-> destination,
                                requested |-> FALSE,
                                response |-> NoResponse]
               /\ raised' = "none"
               /\ UNCHANGED <<files, http_requests, stdout>>
          ELSE \E response \in Responses \cup {NoResponse} :
               /\ last_call' = [file_url |-> file_url,
                                destination |-> destination,
                                requested |-> TRUE,
                                response |-> response]
               /\ http_requests' = http_requests + 1
               /\ IF response = NoResponse
                  THEN \* the exception of requests.get leaves the function
                       /\ raised' = "ConnectionError"
                       /\ UNCHANGED <<files, stdout>>
                  ELSE IF IsSuccess(response.status_code)
                  THEN \* open(destination, "wb"); file.write(response.content)
                       /\ files' = [files EXCEPT
                                      ![destination] = response.content]
                       /\ raised' = "none"
                       /\ UNCHANGED stdout
                  ELSE \* print("Failed to download ...")
                       /\ stdout' = Append(stdout,
                                      <<file_url, response.status_code>>)
                       /\ raised' = "none"
                       /\ UNCHANGED files
    /\ UNCHANGED metricVars
    /\ UNCHANGED sampleVars

InitDownloadIdle ==
    /\ files = [d \in Paths |-> Absent]
    /\ http_requests = 0
    /\ stdout = <<>>
    /\ last_call = NoCall
    /\ calls = 0

\* Inputs of custom_metric: two matrices with the same number of rows
Int2Cells(row) == [j \in 1..Len(row) |-> Num(row[j])]
Int2Matrix(rows) == [i \in 1..Len(rows) |-> Int2Cells(rows[i])]
ExampleInputs ==
    { <<Int2Matrix(<<<<1, 2, 3>>, <<4, 5, 6>>>>),
        Int2Matrix(<<<<1, 2>>, <<4, 6>>>>)>>,
      <<Int2Matrix(<<<<1, 2>>, <<4, 6>>>>),
        Int2Matrix(<<<<1, 2, 3>>, <<4, 5, 6>>>>)>>,
      <<Int2Matrix(<<<<1, 2, 3>>, <<4, 5, 6>>>>),
        Int2Matrix(<<<<3, 2>>, <<4, 6>>>>)>> }
Widths(r) == {c \in 1..MaxCols : r * c <= MaxCells}
BoundedInputs ==
    UNION { UNION { Matrices(r, ca) \X Matrices(r, cp) :
                      <<ca, cp>> \in Widths(r) \X Widths(r) } :
            r \in 0..MaxRows }

InitSampleIdle ==
    /\ n_train_all = 0
    /\ n_valid_all = 0
    /\ fewshot_fraction = 1
    /\ train_index = Unset
    /\ valid_index = Unset
    /\ np_random_state = [seeded |-> FALSE, seed |-> 0]

InitMetric ==
    /\ pc = "cell32"
    /\ \E io \in BoundedInputs \cup ExampleInputs :
          /\ actual = io[1]
          /\ prediction = io[2]
    /\ a = Unset
    /\ p = Unset
    /\ mask = Unset
    /\ report = Unset
    /\ header_arg \in Labels
    /\ report_columns = Unset
    /\ raised = "none"
    /\ InitSampleIdle
    /\ InitDownloadIdle

NextMetric == custom_metric

SpecMetric == InitMetric /\ [][NextMetric]_vars

--------------------------------------------------------------------------
\* Shapes of the arguments, for the statements below
Rows == Len(actual)
ColsA == Len(actual[1])
ColsP == Len(prediction[1])
Returned == pc = "done" /\ raised = "none"
MinCols == IF ColsP < ColsA THEN ColsP ELSE ColsA
\* rows of `actual` with no missing value in the columns that are kept
KeptRows == {i \in 1..Rows : \A j \in 1..MinCols : ~actual[i][j].nan}
KeptCells == KeptRows \X (1..MinCols)
RECURSIVE SumOver(_, _)
SumOver(S, f) ==
    IF S = {} THEN 0
    ELSE LET x == CHOOSE y \in S : TRUE
         IN f[x] + SumOver(S \ {x}, f)
SqErr == [c \in KeptCells |->
            (actual[c[1]][c[2]].v - prediction[c[1]][c[2]].v)
            * (actual[c[1]][c[2]].v - prediction[c[1]][c[2]].v)]
AbsErr == [c \in KeptCells |->
            LET d == actual[c[1]][c[2]].v - prediction[c[1]][c[2]].v
            IN IF d < 0 THEN -d ELSE d]
PredictedNaNKept == \E c \in KeptCells : prediction[c[1]][c[2]].nan

\* C1: when predicted has fewer columns than actual, the scored actual is
\* the first cols(predicted) columns of actual; predicted is scored as given;
\* with equal column counts actual is scored as given.
C1_TruncateActual ==
    (pc = "done" /\ Rows > 0) =>
        /\ p.data = prediction
        /\ p.shape = <<Rows, ColsP>>
        /\ ColsP < ColsA =>
              /\ a.shape = <<Rows, ColsP>>
              /\ \A i \in 1..Rows :
                    /\ Len(a.data[i]) = ColsP
                    /\ \A j \in 1..ColsP : a.data[i][j] = actual[i][j]
        /\ ColsP = ColsA =>
              /\ a.data = actual
              /\ a.shape = <<Rows, ColsA>>

C1_Witness ==
    /\ Returned
    /\ Rows > 0
    /\ ColsP < ColsA
    /\ a.shape[2] = ColsP
    /\ \E i \in 1..Rows : actual[i][ColsA] # actual[i][ColsP]

\* C2: custom_metric fails, and returns no report, whenever predicted has
\* more columns than actual.
C2_MoreColumnsFails ==
    (pc = "done" /\ Rows > 0 /\ ColsP > ColsA) =>
        (raised # "none" /\ report = Unset)

\* C3: custom_metric fails, and returns no report, whenever masking removes
\* every row or there are no rows.
C3_EmptyMaskFails ==
    (pc = "done" /\ (Rows = 0 \/ KeptRows = {})) =>
        (raised # "none" /\ report = Unset)

\* C4: a row is excluded from scoring exactly when actual has a missing value
\* in a column kept after truncation; missing values in truncated-away
\* columns or in predicted exclude nothing, and the excluded rows are left
\* out of both matrices (the scored cell count is kept rows times columns).
C4_MaskIffActualNaN ==
    /\ (pc = "done" /\ Rows > 0) =>
          /\ Len(mask) = Rows
          /\ \A i \in 1..Rows : mask[i] <=> (i \in KeptRows)
    /\ (Returned /\ Rows > 0 /\ ColsP <= ColsA) =>
          /\ report.mean_squared_error.nan <=>
                (KeptRows = {} \/ PredictedNaNKept)
          /\ ~report.mean_squared_error.nan =>
                report.mean_squared_error.den = Cardinality(KeptCells)

C4_Witness ==
    /\ Returned
    /\ Rows = 2
    /\ ColsP < ColsA
    /\ mask = <<FALSE, TRUE>>
    /\ actual[2][ColsA].nan
    /\ prediction[1][1].nan
    /\ ~report.mean_squared_error.nan

\* C5: over the cells left after truncation and masking, mean_squared_error
\* is the sum of squared differences over the cell count, mean_absolute_error
\* the sum of absolute differences over the cell count, and
\* root_mean_squared_error is the square root of mean_squared_error; the
\* example actual=[[1,2,3],[4,5,6]], predicted=[[1,2],[4,6]] gives 1/4, 1/4.
C5_MetricValues ==
    /\ (Returned /\ Rows > 0 /\ ColsP <= ColsA) =>
          /\ report.root_mean_squared_error = [sqrt_of |-> report.mean_squared_error]
          /\ (KeptRows # {} /\ ~PredictedNaNKept) =>
                /\ report.mean_squared_error =
                      [nan |-> FALSE, num |-> SumOver(KeptCells, SqErr),
                       den |-> Cardinality(KeptCells)]
                /\ report.mean_absolute_error =
                      [nan |-> FALSE, num |-> SumOver(KeptCells, AbsErr),
                       den |-> Cardinality(KeptCells)]
    /\ (pc = "done"
        /\ actual = Int2Matrix(<<<<1, 2, 3>>, <<4, 5, 6>>>>)
        /\ prediction = Int2Matrix(<<<<1, 2>>, <<4, 6>>>>)) =>
          /\ raised = "none"
          /\ report.mean_squared_error = [nan |-> FALSE, num |-> 1, den |-> 4]
          /\ report.mean_absolute_error = [nan |-> FALSE, num |-> 1, den |-> 4]

C5_Witness ==
    /\ Returned
    /\ actual = Int2Matrix(<<<<1, 2, 3>>, <<4, 5, 6>>>>)
    /\ prediction = Int2Matrix(<<<<3, 2>>, <<4, 6>>>>)
    /\ report.mean_squared_error.num = 5
    /\ report.mean_absolute_error.num = 3
    /\ report.mean_squared_error.den = 4

\* C12 (as claimed): whichever of actual and predicted has more columns is
\* cut to the column count of the other, so the two scored arrays always
\* have the same number of columns.
C12_LongerIsTruncated ==
    (pc = "done" /\ Rows > 0) =>
        /\ a.shape[2] = MinCols
        /\ p.shape[2] = MinCols

\* C12 (amended): only actual is ever cut.  With predicted no wider than
\* actual the two scored arrays have cols(predicted) columns each; with
\* predicted wider than actual both arrays keep their own column counts.
C12_OnlyActualIsTruncated ==
    (pc = "done" /\ Rows > 0) =>
        /\ p.shape[2] = ColsP
        /\ ColsP <= ColsA => a.shape[2] = ColsP
        /\ ColsP > ColsA => (a.shape[2] = ColsA /\ a.shape[2] < p.shape[2])

C12_Witness ==
    /\ pc = "done"
    /\ Rows > 0
    /\ ColsA = 3
    /\ ColsP = 2
    /\ a.shape = <<Rows, 2>>
    /\ p.shape = <<Rows, 2>>
    /\ raised = "none"

\* C13: a call of custom_metric, whether it returns or raises, leaves the
\* caller's actual and prediction as they were and changes no state outside
\* the function (the global RNG, the sampled datasets, files, output).
C13_Pure ==
    [][(pc = "cell32" /\ pc' = "done") =>
          /\ actual' = actual
          /\ prediction' = prediction
          /\ sampleVars' = sampleVars
          /\ downloadVars' = downloadVars]_vars

C13_Witness ==
    /\ pc = "done"
    /\ raised = "none"
    /\ Rows = 1
    /\ ColsP < ColsA
    /\ a.data # actual
    /\ actual[1][ColsA].nan
    /\ ~report.mean_squared_error.nan

\* C14: a call that returns gives one report whose only column is the label
\* passed in ("results" when the call passes none) and whose entries are
\* exactly mean_squared_error, root_mean_squared_error, mean_absolute_error.
C14_ReportKeys ==
    Returned =>
        /\ Len(report_columns) = 1
        /\ header_arg = Omitted => report_columns[1] = "results"
        /\ header_arg # Omitted => report_columns[1] = header_arg
        /\ DOMAIN report = {"mean_squared_error", "root_mean_squared_error",
                            "mean_absolute_error"}

C14_Witness ==
    /\ Returned
    /\ header_arg = "fine-tune forecast"
    /\ report_columns = <<"fine-tune forecast">>
    /\ Rows = 2
    /\ ~report.mean_absolute_error.nan

--------------------------------------------------------------------------
\* Few-shot sampling cell and set_seed

\* fewshot_fraction = 0.20 = 1/5; the fractions of the model are k/5, k in 1..5
\* (for these, float rounding of the product never crosses an integer, so
\* int(fraction * n) is the exact floor)
FractionDen == 5
Fractions == 1..FractionDen

\* int(fewshot_fraction * n)
IntFractionOf(n) == (fewshot_fraction * n) \div FractionDen

\* arrays of n draws from 0..n-1 that may repeat an index
WithReplacement(n) == [1..n -> 0..(n - 1)]

\* np.random.permutation(n): arange(n) shuffled by the global numpy RNG.
\* Nothing has seeded that RNG when the cell runs, so any order can come out.
permutation(n) ==
    {s \in [1..n -> 0..(n - 1)] : \A i, j \in 1..n : i # j => s[i] # s[j]}

fewshot_sampling ==
    /\ pc = "cell20"
    /\ pc' = "cell22"
    /\ \E perm_train \in permutation(n_train_all) :
          train_index' = SubSeq(perm_train, 1, IntFractionOf(n_train_all))
    /\ \E perm_valid \in permutation(n_valid_all) :
          valid_index' = SubSeq(perm_valid, 1, IntFractionOf(n_valid_all))
    /\ raised' = "none"
    /\ UNCHANGED <<n_train_all, n_valid_all, fewshot_fraction, np_random_state>>
    /\ UNCHANGED metricVars
    /\ UNCHANGED downloadVars

\* set_seed(1234)
set_seed ==
    /\ pc = "cell22"
    /\ pc' = "done"
    /\ np_random_state' = [seeded |-> TRUE, seed |-> 1234]
    /\ UNCHANGED <<n_train_all, n_valid_all, fewshot_fraction, train_index,
                   valid_index, raised>>
    /\ UNCHANGED metricVars
    /\ UNCHANGED downloadVars

InitMetricIdle ==
    /\ actual = Unset
    /\ prediction = Unset
    /\ a = Unset
    /\ p = Unset
    /\ mask = Unset
    /\ report = Unset
    /\ header_arg = Omitted
    /\ report_columns = Unset

InitSample ==
    /\ pc = "cell20"
    /\ n_train_all \in 0..MaxN
    /\ n_valid_all \in 0..MaxN
    /\ fewshot_fraction \in Fractions
    /\ train_index = Unset
    /\ valid_index = Unset
    /\ np_random_state = [seeded |-> FALSE, seed |-> 0]
    /\ raised = "none"
    /\ InitMetricIdle
    /\ InitDownloadIdle

NextSample ==
    \/ fewshot_sampling
    \/ set_seed

SpecSample == InitSample /\ [][NextSample]_vars

--------------------------------------------------------------------------
Sampled == pc \in {"cell22", "done"}
Range(s) == {s[i] : i \in 1..Len(s)}
\* q is the floor of fewshot_fraction/FractionDen * n
IsFloorOfFraction(q, n) ==
    /\ q * FractionDen <= fewshot_fraction * n
    /\ fewshot_fraction * n < (q + 1) * FractionDen
IsSampleOf(idx, n) ==
    /\ \A i, j \in 1..Len(idx) : i # j => idx[i] # idx[j]
    /\ Range(idx) \subseteq 0..(n - 1)
    /\ IsFloorOfFraction(Len(idx), n)
    /\ fewshot_fraction = FractionDen => Range(idx) = 0..(n - 1)

\* C6: two draws with the same fraction and dataset size return the same
\* index subset, whatever the state of the global RNG.
C6_SameInputsSameSubset ==
    (Sampled /\ n_train_all = n_valid_all) => train_index = valid_index

\* C7: the selected indices are pairwise distinct, lie in 0..n-1, number
\* exactly floor(fraction * n), and with fraction 1 are all of 0..n-1.
C7_SampleShape ==
    Sampled =>
        /\ IsSampleOf(train_index, n_train_all)
        /\ IsSampleOf(valid_index, n_valid_all)

C7_Witness ==
    /\ Sampled
    /\ n_train_all = MaxN
    /\ n_valid_all = MaxN - 1
    /\ fewshot_fraction = 3
    /\ Len(train_index) = (3 * MaxN) \div FractionDen
    /\ Len(train_index) >= 2
    /\ train_index[1] > train_index[2]

\* C8: when floor(fraction * n) is 0 the sampling fails; no empty training
\* or validation subset is handed on.
C8_EmptySampleFails ==
    (Sampled /\ raised = "none") =>
        (Len(train_index) > 0 /\ Len(valid_index) > 0)

--------------------------------------------------------------------------
\* Sequences of download_file calls
InitDownload ==
    /\ pc = "cell7"
    /\ files \in [Paths -> {Absent, "present-before"}]
    /\ http_requests = 0
    /\ stdout = <<>>
    /\ last_call = NoCall
    /\ calls = 0
    /\ raised = "none"
    /\ InitMetricIdle
    /\ InitSampleIdle

NextDownload == download_file

SpecDownload == InitDownload /\ [][NextDownload]_vars

IsCallFor(d) == calls' = calls + 1 /\ last_call'.destination = d

\* C16: once a destination exists, its contents never change again, and a
\* download_file call for it issues no HTTP request, whatever the remote
\* would serve.
C16_NeverOverwrites ==
    [][\A d \in Paths :
          files[d] # Absent =>
              /\ files'[d] = files[d]
              /\ IsCallFor(d) =>
                    /\ http_requests' = http_requests
                    /\ ~last_call'.requested
                    /\ files' = files]_vars

C16_Witness ==
    /\ calls = 2
    /\ http_requests = 1
    /\ ~last_call.requested
    /\ files[last_call.destination] \in Bodies
    /\ raised = "none"

\* C17: a call for an absent destination whose response status is not 200
\* creates no file, prints the failure message and raises nothing; with
\* status 200 the destination is created holding exactly the response body;
\* a destination comes into existence in no other way.
C17_WriteOnlyOn200 ==
    [][\A d \in Paths :
          /\ (IsCallFor(d) /\ files[d] = Absent
              /\ last_call'.response # NoResponse) =>
                LET r == last_call'.response
                IN /\ r.status_code # 200 =>
                         /\ files' = files
                         /\ raised' = "none"
                         /\ stdout' = Append(stdout,
                                        <<last_call'.file_url, r.status_code>>)
                   /\ r.status_code = 200 =>
                         /\ files' = [files EXCEPT ![d] = r.content]
                         /\ raised' = "none"
                         /\ stdout' = stdout
          /\ (files[d] = Absent /\ files'[d] # Absent) =>
                /\ IsCallFor(d)
                /\ last_call'.response.status_code = 200
                /\ files'[d] = last_call'.response.content]_vars

C17_Witness ==
    /\ calls = 2
    /\ last_call.requested
    /\ last_call.response.status_code = 500
    /\ files[last_call.destination] = Absent
    /\ raised = "none"
    /\ Len(stdout) = 2
    /\ stdout[2] = <<last_call.file_url, 500>>

====
